---- MODULE Spec2Model ----
(***************************************************************************)
(* A model of tsh (src/tsh.c): the job table, the proc mirror, the         *)
(* evaluator, the fg/bg builtin, the foreground waiter and the three       *)
(* signal handlers, interleaved at the points where the code leaves        *)
(* signals deliverable.                                                    *)
(*                                                                         *)
(* Spec      the whole shell: main thread, handlers, children, the user.   *)
(* TableSpec the job table alone under sequences of addjob / deletejob.    *)
(***************************************************************************)
EXTENDS Integers, Sequences, FiniteSets, TLC

(* ------------------------------ bounds --------------------------------- *)
\* capacity of the job table (16 in src/tsh.c:22, scaled down)
MAXJOBS == 4
\* number of inputs the user gives in one run of the shell: command lines
\* typed at the prompt and ctrl-c / ctrl-z typed at the terminal
MaxInputs == 3
\* number of jobs added in one run of the table-only specification
NumTablePids == 5
\* capacity of the history ring (10 in src/tsh.c:24, scaled down)
MAXHISTORY == 2
\* number of command lines typed in one run of the session specification
MaxLines == 3
\* number of calls of eval from run_nth_history, nested in each other, that
\* the stack holds (each frame of eval and run_nth_history takes a few
\* kilobytes of a stack of megabytes; scaled down)
MaxDepth == 2

(* -------------------------- program constants -------------------------- *)
UNDEF == 0
FG == 1
BG == 2
ST == 3

\* Process ids.  Children's pids lie above every job id the model can
\* allocate, as they do on a real system (pids well above 16).
ShellPid == MAXJOBS + MaxInputs + NumTablePids
\* The kernel hands out pids in increasing order; at most one child is
\* forked per command line.
Pids == {ShellPid + k : k \in 1..MaxInputs}
TablePids == {ShellPid + k : k \in 1..NumTablePids}

SIGCHLD == "SIGCHLD"
SIGINT == "SIGINT"
SIGTSTP == "SIGTSTP"
\* the signals the shell installs handlers for (sigfillset covers them all)
AllSigs == {SIGCHLD, SIGINT, SIGTSTP}

\* absent proc/<pid>/status
NoRec == "-"

Slots == 1..MAXJOBS

\* the users that log in; root is the administrator
LoginUsers == {"root", "user"}

\* A C string is a sequence of tokens: the text of a command line without
\* its newline is one token, the newline character is the token NL.
NL == "\n"
\* the ring with no entry (the zero-initialised global)
EmptyRing == [i \in 1..MAXHISTORY |-> <<>>]

VARIABLES
    jobs,       \* struct job_t jobs[MAXJOBS]: slot -> [pid, jid, state]
    nextjid,    \* int nextjid
    fg_pid,     \* volatile sig_atomic_t fg_pid
    pid_buf,    \* volatile sig_atomic_t pid_buf (shared by all handlers)
    proc,       \* proc/<pid>/status: pid -> STAT field, or NoRec
    child,      \* kernel's view of each child pid
    pending,    \* signals pending for the shell
    mask,       \* the shell's signal mask
    hdl,        \* the activation of sigchld_handler: [pc, pid, status, ret]
    pc,         \* position of the main thread
    loc,        \* locals of the main thread (eval / do_bgfg)
    shell,      \* "run", "exit0", "exit1" (_exit from a handler), "crash"
    forks,      \* number of children forked so far
    inputs,     \* number of inputs the user has given so far
    history,    \* char history[MAXHISTORY][MAXLINE]: the ring
    hfile,      \* home/<user>/.tsh_history of each user that can log in
    appended,   \* the commands given to add_to_history by this process
    username,   \* char *username, "" before login
    passwd,     \* etc/passwd: the user names it has a line for
    homes,      \* home/: the user directories
    cmdline,    \* the line eval is working on
    lines,      \* number of command lines typed so far
    depth       \* number of calls of eval from run_nth_history on the stack

\* the state of the login session, the history and the user database
svars == <<history, hfile, appended, username, passwd, homes, cmdline, lines,
           depth>>

vars == <<jobs, nextjid, fg_pid, pid_buf, proc, child, pending, mask, hdl,
          pc, loc, shell, forks, inputs, history, hfile, appended, username,
          passwd, homes, cmdline, lines, depth>>

(* --------------------------- job list helpers -------------------------- *)
\* clearjob: the value of a cleared slot
clearjob == [pid |-> 0, jid |-> 0, state |-> UNDEF]

RECURSIVE MaxOver(_, _)
MaxOver(J, i) ==
    IF i = 0 THEN 0
    ELSE LET m == MaxOver(J, i - 1)
         IN  IF J[i].jid > m THEN J[i].jid ELSE m

\* maxjid as it would be with max initialised to 1
maxjid_from1(J) == IF MaxOver(J, MAXJOBS) < 1 THEN 1 ELSE MaxOver(J, MAXJOBS)

\* maxjid: largest allocated job id
maxjid(J) == MaxOver(J, MAXJOBS)

\* the first slot the scan for (i = 0; i < MAXJOBS; i++) meets among the
\* slots S that satisfy its test, 0 when there is none
FirstSlot(S) ==
    IF S = {} THEN 0 ELSE CHOOSE i \in S : \A k \in S : i <= k

\* the wrap of nextjid after an allocation
WrapJid(n) == IF n > MAXJOBS THEN 1 ELSE n

\* addjob without its test of pid < 1
addjob_anypid(J, nj, pid, state) ==
    LET i == FirstSlot({k \in Slots : J[k].pid = 0})
    IN  IF i = 0
        THEN [jobs |-> J, nextjid |-> nj, ok |-> FALSE]
        ELSE [jobs |-> [J EXCEPT ![i] = [pid |-> pid, jid |-> nj, state |-> state]],
              nextjid |-> WrapJid(nj + 1),
              ok |-> TRUE]

\* addjob: [jobs, nextjid, ok]
addjob(J, nj, pid, state) ==
    LET i == FirstSlot({k \in Slots : J[k].pid = 0})
    IN  IF pid < 1 \/ i = 0
        THEN [jobs |-> J, nextjid |-> nj, ok |-> FALSE]
        ELSE [jobs |-> [J EXCEPT ![i] = [pid |-> pid, jid |-> nj, state |-> state]],
              nextjid |-> WrapJid(nj + 1),
              ok |-> TRUE]

\* deletejob without nextjid = maxjid(jobs) + 1
deletejob_keepnext(J, nj, pid) ==
    LET i == FirstSlot({k \in Slots : J[k].pid = pid})
    IN  IF pid < 1 \/ i = 0
        THEN [jobs |-> J, nextjid |-> nj, ok |-> FALSE]
        ELSE [jobs |-> [J EXCEPT ![i] = clearjob], nextjid |-> nj, ok |-> TRUE]

\* deletejob: [jobs, nextjid, ok]
deletejob(J, nj, pid) ==
    LET i == FirstSlot({k \in Slots : J[k].pid = pid})
    IN  IF pid < 1 \/ i = 0
        THEN [jobs |-> J, nextjid |-> nj, ok |-> FALSE]
        ELSE LET K == [J EXCEPT ![i] = clearjob]
             IN  [jobs |-> K, nextjid |-> maxjid(K) + 1, ok |-> TRUE]

\* fgpid as it would be if it took the first job in any state
fgpid_anyjob(J) ==
    LET i == FirstSlot({k \in Slots : J[k].state # UNDEF})
    IN  IF i = 0 THEN 0 ELSE J[i].pid

\* fgpid: pid of the first slot in state FG, 0 if none
fgpid(J) ==
    LET i == FirstSlot({k \in Slots : J[k].state = FG})
    IN  IF i = 0 THEN 0 ELSE J[i].pid

\* getjobpid: slot index of the job with that pid, 0 for NULL
getjobpid(J, pid) ==
    IF pid < 1 THEN 0 ELSE FirstSlot({k \in Slots : J[k].pid = pid})

\* getjobjid: slot index of the job with that jid, 0 for NULL
getjobjid(J, jid) ==
    IF jid < 1 THEN 0 ELSE FirstSlot({k \in Slots : J[k].jid = jid})

\* pid2jid: jid of the job with that pid, 0 if none
pid2jid(J, pid) ==
    LET i == getjobpid(J, pid)
    IN  IF i = 0 THEN 0 ELSE J[i].jid

\* listjobs: the lines printed, one [jid, pid, state] for each slot with
\* pid # 0, in the order of the slots
RECURSIVE ListFrom(_, _)
ListFrom(J, i) ==
    IF i > MAXJOBS THEN <<>>
    ELSE (IF J[i].pid # 0 THEN <<J[i]>> ELSE <<>>) \o ListFrom(J, i + 1)

listjobs(J) == ListFrom(J, 1)

\* are_open_jobs as it would be if it looked for stopped jobs only
are_open_jobs_stopped(J) == \E i \in Slots : J[i].state = ST

\* are_open_jobs
are_open_jobs(J) == \E i \in Slots : J[i].state # UNDEF

\* bg_to_state
bg_to_state(bg) == IF bg THEN BG ELSE FG

(* ------------------------------ proc mirror ---------------------------- *)
HasRec(pr, pid) == pid \in DOMAIN pr /\ pr[pid] # NoRec

\* determine_stat_state for a child (pid # sid)
determine_stat_state(state) ==
    IF state = FG THEN "R+" ELSE IF state = BG THEN "R" ELSE "T"

\* create_proc_entry: mkdir fails when the directory exists, and then
\* nothing is written
create_proc_entry(pr, pid, st) ==
    IF HasRec(pr, pid) THEN pr ELSE [pr EXCEPT ![pid] = st]

\* remove_proc_entry: remove() fails on a missing file, nothing else happens
remove_proc_entry(pr, pid) ==
    IF HasRec(pr, pid) THEN [pr EXCEPT ![pid] = NoRec] ELSE pr

\* remove_proc_entries: every numeric directory under proc/
remove_proc_entries(pr) == [p \in DOMAIN pr |-> NoRec]

\* edit_proc_entry: the set of outcomes [proc, ok].  With the record
\* present: read, replace STAT, write.  With the record missing,
\* read_proc_entry calls fclose(NULL) and leaves the stat struct
\* uninitialised, which write_proc_entry then uses: undefined behaviour,
\* whose outcomes are a crash (ok = FALSE), a return with nothing written,
\* or a write through the uninitialised pid to a record that exists.
edit_proc_entry(pr, pid, st) ==
    IF HasRec(pr, pid)
    THEN {[proc |-> [pr EXCEPT ![pid] = st], ok |-> TRUE]}
    ELSE {[proc |-> pr, ok |-> FALSE], [proc |-> pr, ok |-> TRUE]}
         \cup {[proc |-> [pr EXCEPT ![q] = st], ok |-> TRUE] :
                 q \in {r \in DOMAIN pr : pr[r] # NoRec}}

(* ------------------------------- children ------------------------------ *)
\* "none"   no such process (never forked, or reaped)
\* "forkF" / "forkB"  forked for a foreground / background command, before
\*          its create_proc_entry, setpgid and execve
\* "run"    running in its own process group
\* "stopu"  stopped, the stop not yet reported by waitpid
\* "stop"   stopped, the stop reported
\* "zomb"   terminated, not yet reaped
ChildStates == {"none", "forkF", "forkB", "run", "stopu", "stop", "zomb"}

\* does the process group -pid exist (kill(-pid, sig) succeeds)
GroupExists(ch, pid) == pid \in DOMAIN ch /\ ch[pid] \in {"run", "stopu", "stop", "zomb"}

\* the effect of a signal sent to the process group of pid: [child, chld]
\* where chld tells whether the kernel raises SIGCHLD for the shell
SignalGroup(ch, pid, sig) ==
    IF ~GroupExists(ch, pid) THEN [child |-> ch, chld |-> FALSE]
    ELSE IF sig = "SIGINT" /\ ch[pid] = "run"
         THEN [child |-> [ch EXCEPT ![pid] = "zomb"], chld |-> TRUE]
    ELSE IF sig = "SIGTSTP" /\ ch[pid] = "run"
         THEN [child |-> [ch EXCEPT ![pid] = "stopu"], chld |-> TRUE]
    ELSE IF sig = "SIGCONT" /\ ch[pid] \in {"stopu", "stop"}
         THEN [child |-> [ch EXCEPT ![pid] = "run"], chld |-> TRUE]
    ELSE [child |-> ch, chld |-> FALSE]

(* -------------------------------- state -------------------------------- *)
\* locals of eval (pid, bg, prev_one) and of do_bgfg (cmd = argv[0],
\* arg = atoi(argv[1]), jid, job = job_to_modify as a slot index with 0 for
\* NULL, from = the state the builtin found the job in)
\* saved = the mask sigsuspend restores when it returns
NoLoc == [pid |-> 0, bg |-> FALSE, prev_one |-> {}, saved |-> {}, cmd |-> "-",
          arg |-> 0, jid |-> 0, job |-> 0, from |-> UNDEF]

\* no activation of sigchld_handler; otherwise pc is "wait" (at the call of
\* waitpid) or "body" (after it, before the sigprocmask of the loop body),
\* pid is the value waitpid returned and status the kind of change it
\* reported, ret is the mask the kernel restores when the handler returns
NoHdl == [pc |-> "-", pid |-> 0, status |-> "-", ret |-> {}]

\* initjobs, nextjid = 1, and main() up to the first fgets: the shell's own
\* proc record exists with STAT Ss
Init ==
    /\ jobs = [i \in Slots |-> clearjob]
    /\ nextjid = 1
    /\ fg_pid = 0
    /\ pid_buf = 0
    /\ proc = [p \in Pids \cup {ShellPid} |-> IF p = ShellPid THEN "Ss" ELSE NoRec]
    /\ child = [p \in Pids |-> "none"]
    /\ pending = {}
    /\ mask = {}
    /\ hdl = NoHdl
    /\ pc = "read"
    /\ loc = NoLoc
    /\ shell = "run"
    /\ forks = 0
    /\ inputs = 0
    /\ history = EmptyRing
    /\ hfile = [u \in LoginUsers |-> <<>>]
    /\ appended = <<>>
    /\ username = "root"
    /\ passwd = LoginUsers
    /\ homes = LoginUsers
    /\ cmdline = <<>>
    /\ lines = 0
    /\ depth = 0

\* The kernel delivers a pending signal that is not blocked before the
\* shell executes anything else.
Quiet == pending \ mask = {}

\* the main thread runs only when no handler is active
MainRuns == shell = "run" /\ hdl.pc = "-" /\ Quiet

(* ------------------------------ eval ----------------------------------- *)
\* eval as it would be without sigprocmask(SIG_BLOCK, &mask_one, &prev_one):
\* SIGCHLD stays deliverable across fork and addjob
EvalExternalNoBlock(bg) ==
    /\ UNCHANGED svars
    /\ MainRuns /\ pc = "read" /\ inputs < MaxInputs
    /\ inputs' = inputs + 1
    /\ loc' = [NoLoc EXCEPT !.bg = bg, !.prev_one = mask]
    /\ pc' = "fork"
    /\ UNCHANGED <<jobs, nextjid, fg_pid, pid_buf, proc, child, pending,
                   mask, hdl, shell, forks>>

\* eval of a line that is not a builtin, up to and including
\* sigprocmask(SIG_BLOCK, &mask_one, &prev_one)
EvalExternal(bg) ==
    /\ UNCHANGED svars
    /\ MainRuns /\ pc = "read" /\ inputs < MaxInputs
    /\ inputs' = inputs + 1
    /\ loc' = [NoLoc EXCEPT !.bg = bg, !.prev_one = mask]
    /\ mask' = mask \cup {SIGCHLD}
    /\ pc' = "fork"
    /\ UNCHANGED <<jobs, nextjid, fg_pid, pid_buf, proc, child, pending,
                   hdl, shell, forks>>

\* the pid the kernel gives the next child
NextPid == ShellPid + forks + 1

\* pid = fork(): a new child with the next pid, or fork fails with -1
Fork ==
    /\ UNCHANGED svars
    /\ MainRuns /\ pc = "fork"
    /\ \/ /\ child' = [child EXCEPT ![NextPid] = IF loc.bg THEN "forkB" ELSE "forkF"]
          /\ loc' = [loc EXCEPT !.pid = NextPid]
          /\ forks' = forks + 1
       \/ /\ loc' = [loc EXCEPT !.pid = -1]
          /\ UNCHANGED <<child, forks>>
    /\ pc' = "blockall"
    /\ UNCHANGED <<jobs, nextjid, fg_pid, pid_buf, proc, pending, mask,
                   hdl, shell, inputs>>

\* sigprocmask(SIG_BLOCK, &mask_all, NULL)
BlockAll ==
    /\ UNCHANGED svars
    /\ MainRuns /\ pc = "blockall"
    /\ mask' = AllSigs
    /\ pc' = "addjob"
    /\ UNCHANGED <<jobs, nextjid, fg_pid, pid_buf, proc, child, pending,
                   hdl, loc, shell, forks, inputs>>

\* addjob(jobs, pid, bg_to_state(bg), cmdline); its result is ignored
AddJob ==
    /\ UNCHANGED svars
    /\ MainRuns /\ pc = "addjob"
    /\ LET r == addjob(jobs, nextjid, loc.pid, bg_to_state(loc.bg))
       IN  jobs' = r.jobs /\ nextjid' = r.nextjid
    /\ pc' = "restore"
    /\ UNCHANGED <<fg_pid, pid_buf, proc, child, pending, mask, hdl, loc,
                   shell, forks, inputs>>

\* eval as it would be without sigprocmask(SIG_SETMASK, &prev_one, NULL)
\* after addjob
RestoreKeepMask ==
    /\ UNCHANGED svars
    /\ MainRuns /\ pc = "restore"
    /\ IF loc.bg THEN pc' = "read" /\ loc' = NoLoc
                 ELSE pc' = "waitchk" /\ UNCHANGED loc
    /\ UNCHANGED <<jobs, nextjid, fg_pid, pid_buf, proc, child, pending,
                   mask, hdl, shell, forks, inputs>>

\* sigprocmask(SIG_SETMASK, &prev_one, NULL), then waitfg or the printf
Restore ==
    /\ UNCHANGED svars
    /\ MainRuns /\ pc = "restore"
    /\ mask' = loc.prev_one
    /\ IF loc.bg THEN pc' = "read" /\ loc' = NoLoc
                 ELSE pc' = "waitchk" /\ UNCHANGED loc
    /\ UNCHANGED <<jobs, nextjid, fg_pid, pid_buf, proc, child, pending,
                   hdl, shell, forks, inputs>>

(* ------------------------------ waitfg --------------------------------- *)
\* waitfg as it would be if any non-zero fg_pid ended the loop
WaitCheckAnyPid ==
    /\ UNCHANGED svars
    /\ MainRuns /\ pc = "waitchk"
    /\ pc' = IF fg_pid = 0 THEN "sigsuspend" ELSE "waitdone"
    /\ UNCHANGED <<jobs, nextjid, fg_pid, pid_buf, proc, child, pending,
                   mask, hdl, loc, shell, forks, inputs>>

\* the test of while (pid != fg_pid)
WaitCheck ==
    /\ UNCHANGED svars
    /\ MainRuns /\ pc = "waitchk"
    /\ pc' = IF loc.pid # fg_pid THEN "sigsuspend" ELSE "waitdone"
    /\ UNCHANGED <<jobs, nextjid, fg_pid, pid_buf, proc, child, pending,
                   mask, hdl, loc, shell, forks, inputs>>

\* sigsuspend(block_set) takes effect: the mask becomes block_set (eval
\* passes &prev_one) and the shell sleeps until a handler has run
Suspend ==
    /\ UNCHANGED svars
    /\ MainRuns /\ pc = "sigsuspend"
    /\ loc' = [loc EXCEPT !.saved = mask]
    /\ mask' = loc.prev_one
    /\ pc' = "asleep"
    /\ UNCHANGED <<jobs, nextjid, fg_pid, pid_buf, proc, child, pending,
                   hdl, shell, forks, inputs>>

\* fg_pid = 0 after the loop, and the return to main's fgets
WaitDone ==
    /\ UNCHANGED svars
    /\ MainRuns /\ pc = "waitdone"
    /\ fg_pid' = 0
    /\ pc' = "read"
    /\ loc' = NoLoc
    /\ UNCHANGED <<jobs, nextjid, pid_buf, proc, child, pending, mask,
                   hdl, shell, forks, inputs>>
(* ------------------------------ do_bgfg -------------------------------- *)
\* the arguments a user gives to fg / bg
BgfgArgs == (1..MaxInputs) \cup Pids

\* the STAT written by the builtin
BgfgStat(cmd) == IF cmd = "fg" THEN "R+" ELSE "R"

\* the job state written by the builtin
BgfgState(cmd) == IF cmd = "fg" THEN FG ELSE BG

\* exec_builtin -> do_bgfg: pid_or_jid = atoi(argv[1]); jid = pid2jid(pid_or_jid)
DoBgfg(cmd, arg) ==
    /\ UNCHANGED svars
    /\ MainRuns /\ pc = "read" /\ inputs < MaxInputs
    /\ inputs' = inputs + 1
    /\ loc' = [NoLoc EXCEPT !.cmd = cmd, !.arg = arg, !.jid = pid2jid(jobs, arg)]
    /\ pc' = "b_get"
    /\ UNCHANGED <<jobs, nextjid, fg_pid, pid_buf, proc, child, pending,
                   mask, hdl, shell, forks>>

\* the slot do_bgfg selects: by pid when pid2jid gave 0, else by that jid
BgfgLookup(J, arg, jid) ==
    IF jid = 0 THEN getjobpid(J, arg) ELSE getjobjid(J, jid)

\* job_to_modify = getjobpid(...) or getjobjid(...); pid_or_jid and jid
\* are used only in messages afterwards
BgfgGet ==
    /\ UNCHANGED svars
    /\ MainRuns /\ pc = "b_get"
    /\ loc' = [loc EXCEPT !.job = BgfgLookup(jobs, loc.arg, loc.jid),
                          !.arg = 0, !.jid = 0]
    /\ pc' = "b_chk"
    /\ UNCHANGED <<jobs, nextjid, fg_pid, pid_buf, proc, child, pending,
                   mask, hdl, shell, forks, inputs>>

\* do_bgfg as it would be if bg were carried out on a job already in BG
BgfgBranchBgAgain(cmd, state) ==
    IF state = FG THEN "ret"
    ELSE IF state = BG THEN "set"
    ELSE IF state = ST THEN "set"
    ELSE "ret"

\* do_bgfg as it would be if bg accepted a job in state FG
BgfgBranchAny(cmd, state) ==
    IF state \in {FG, BG, ST} /\ state # BgfgState(cmd) THEN "set" ELSE "ret"

\* the branch do_bgfg takes on the job's state: "set" to go on to the
\* state write, "ret" for the error returns and the fall-through
BgfgBranch(cmd, state) ==
    IF state = FG THEN "ret"
    ELSE IF state = BG THEN (IF cmd = "bg" THEN "ret" ELSE "set")
    ELSE IF state = ST THEN "set"
    ELSE "ret"

\* the NULL test and the tests of job_to_modify->state
BgfgCheck ==
    /\ UNCHANGED svars
    /\ MainRuns /\ pc = "b_chk"
    /\ IF loc.job # 0 /\ BgfgBranch(loc.cmd, jobs[loc.job].state) = "set"
       THEN /\ loc' = [loc EXCEPT !.from = jobs[loc.job].state]
            /\ pc' = "b_set"
       ELSE /\ loc' = NoLoc
            /\ pc' = "read"
    /\ UNCHANGED <<jobs, nextjid, fg_pid, pid_buf, proc, child, pending,
                   mask, hdl, shell, forks, inputs>>

\* job_to_modify->state = FG (fg) or BG (bg)
BgfgSet ==
    /\ UNCHANGED svars
    /\ MainRuns /\ pc = "b_set"
    /\ jobs' = [jobs EXCEPT ![loc.job].state = BgfgState(loc.cmd)]
    /\ pc' = IF loc.cmd = "fg" THEN "b_fgpid" ELSE "b_proc"
    /\ UNCHANGED <<nextjid, fg_pid, pid_buf, proc, child, pending, mask,
                   hdl, loc, shell, forks, inputs>>

\* fg_pid = 0 (fg only)
BgfgFgpid ==
    /\ UNCHANGED svars
    /\ MainRuns /\ pc = "b_fgpid"
    /\ fg_pid' = 0
    /\ pc' = "b_proc"
    /\ UNCHANGED <<jobs, nextjid, pid_buf, proc, child, pending, mask,
                   hdl, loc, shell, forks, inputs>>

\* edit_proc_entry(job_to_modify->pid, "R+" or "R"); a job found in BG
\* returns here (the call of waitfg is commented out), a job found in ST
\* goes on to kill
BgfgProc ==
    /\ UNCHANGED svars
    /\ MainRuns /\ pc = "b_proc"
    /\ \E o \in edit_proc_entry(proc, jobs[loc.job].pid, BgfgStat(loc.cmd)) :
          /\ proc' = o.proc
          /\ shell' = IF o.ok THEN shell ELSE "crash"
    /\ IF loc.from = ST THEN pc' = "b_kill" /\ UNCHANGED loc
                        ELSE pc' = "read" /\ loc' = NoLoc
    /\ UNCHANGED <<jobs, nextjid, fg_pid, pid_buf, child, pending, mask,
                   hdl, forks, inputs>>

\* kill(-job_to_modify->pid, SIGCONT), result ignored, then return (the
\* call of waitfg is commented out)
BgfgKill ==
    /\ UNCHANGED svars
    /\ MainRuns /\ pc = "b_kill"
    /\ LET p == jobs[loc.job].pid
           r == SignalGroup(child, p, "SIGCONT")
       IN  /\ child' = r.child
           /\ pending' = IF r.chld THEN pending \cup {SIGCHLD} ELSE pending
    /\ pc' = "read"
    /\ loc' = NoLoc
    /\ UNCHANGED <<jobs, nextjid, fg_pid, pid_buf, proc, mask, hdl, shell,
                   forks, inputs>>

(* --------------------------- signal delivery --------------------------- *)
\* The kernel runs sigchld_handler for a pending, unblocked SIGCHLD: the
\* signal joins the mask (sa_mask is empty, no SA_NODEFER) and the mask at
\* delivery is restored when the handler returns.  A delivery during
\* sigsuspend makes sigsuspend return, with the mask it saved, to the test
\* of waitfg.
Wake == IF pc = "asleep" THEN "waitchk" ELSE pc
RetMask == IF pc = "asleep" THEN loc.saved ELSE mask

DeliverChld ==
    /\ UNCHANGED svars
    /\ shell = "run"
    /\ SIGCHLD \in pending /\ SIGCHLD \notin mask
    /\ hdl' = [pc |-> "wait", pid |-> 0, status |-> "-", ret |-> RetMask]
    /\ mask' = mask \cup {SIGCHLD}
    /\ pending' = pending \ {SIGCHLD}
    /\ pc' = Wake
    /\ UNCHANGED <<jobs, nextjid, fg_pid, pid_buf, proc, child, loc, shell,
                   forks, inputs>>

InHandler(at) == shell = "run" /\ Quiet /\ hdl.pc = at
\* the handler returns: the kernel restores the mask
Return == hdl' = NoHdl /\ mask' = hdl.ret

(* --------------------------- sigchld_handler --------------------------- *)
\* children with a state change that waitpid(-1, WNOHANG | WUNTRACED) reports
Ready(ch) == {p \in DOMAIN ch : ch[p] \in {"zomb", "stopu"}}

\* pid_buf = waitpid(-1, &status, WNOHANG | WUNTRACED): some ready child is
\* reported (a terminated one is reaped), else the result is <= 0, which
\* ends the loop and the handler
ChldWait ==
    /\ UNCHANGED svars
    /\ InHandler("wait")
    /\ IF Ready(child) # {}
       THEN \E p \in Ready(child) :
              /\ pid_buf' = p
              /\ child' = [child EXCEPT ![p] = IF child[p] = "zomb" THEN "none" ELSE "stop"]
              /\ hdl' = [hdl EXCEPT !.pc = "body", !.pid = p,
                                    !.status = IF child[p] = "zomb" THEN "exit" ELSE "stop"]
              /\ UNCHANGED mask
       ELSE /\ pid_buf' = 0
            /\ Return
            /\ UNCHANGED child
    /\ UNCHANGED <<jobs, nextjid, fg_pid, proc, pending, pc, loc, shell,
                   forks, inputs>>

\* the pid the loop body works on: the global pid_buf as it is now
ChldPid == pid_buf

\* The loop body, from sigprocmask(SIG_BLOCK, &mask_all, &prev_all) to
\* sigprocmask(SIG_SETMASK, &prev_all, NULL): no handler can run inside it.
\* A pid without a job makes the handler return at once.
ChldBody ==
    /\ UNCHANGED svars
    /\ InHandler("body")
    /\ LET p == ChldPid
           j == getjobpid(jobs, p)
       IN  IF j = 0
           THEN /\ Return
                /\ pid_buf' = 0
                /\ UNCHANGED <<jobs, nextjid, fg_pid, proc, shell>>
           ELSE IF hdl.status = "exit"
           THEN LET d == deletejob(jobs, nextjid, p)
                IN  /\ fg_pid' = IF jobs[j].state = FG THEN p ELSE fg_pid
                    /\ proc' = remove_proc_entry(proc, p)
                    /\ jobs' = d.jobs /\ nextjid' = d.nextjid
                    /\ hdl' = [hdl EXCEPT !.pc = "wait", !.pid = 0, !.status = "-"]
                    /\ UNCHANGED <<mask, shell, pid_buf>>
           ELSE \E o \in edit_proc_entry(proc, p, "T") :
                    /\ jobs' = [jobs EXCEPT ![j].state = ST]
                    /\ proc' = o.proc
                    /\ IF o.ok THEN fg_pid' = p /\ UNCHANGED shell
                               ELSE shell' = "crash" /\ UNCHANGED fg_pid
                    /\ hdl' = [hdl EXCEPT !.pc = "wait", !.pid = 0, !.status = "-"]
                    /\ UNCHANGED <<mask, nextjid, pid_buf>>
    /\ UNCHANGED <<child, pending, pc, loc, forks, inputs>>

(* ----------------------- sigint_handler, sigtstp_handler --------------- *)
\* Both handlers do nothing before their sigprocmask(SIG_BLOCK, &mask_all,
\* ...) and nothing after restoring the mask, so each runs as one step at
\* the point of delivery: in the main thread, or inside sigchld_handler
\* at the call of waitpid or between waitpid and the loop body's
\* sigprocmask.  Every handler assigns pid_buf before reading it; the model
\* keeps its value only while sigchld_handler still has to read it.
LivePidBuf(p) == IF hdl.pc = "body" THEN p ELSE 0

\* kill(-pid, SIGINT) on a process group that does not exist fails, and
\* sigsafe_error then ends the shell with _exit(EXIT_FAILURE).
SigintHandler ==
    /\ UNCHANGED svars
    /\ shell = "run"
    /\ SIGINT \in pending /\ SIGINT \notin mask
    /\ LET p == fgpid(jobs)
       IN  /\ pid_buf' = LivePidBuf(p)
           /\ IF p # 0
              THEN LET d == deletejob(jobs, nextjid, p)
                       r == SignalGroup(child, p, "SIGINT")
                   IN  /\ jobs' = d.jobs /\ nextjid' = d.nextjid
                       /\ proc' = remove_proc_entry(proc, p)
                       /\ fg_pid' = p
                       /\ child' = r.child
                       /\ pending' = (pending \ {SIGINT})
                                       \cup (IF r.chld THEN {SIGCHLD} ELSE {})
                       /\ shell' = IF GroupExists(child, p) THEN shell ELSE "exit1"
              ELSE /\ pending' = pending \ {SIGINT}
                   /\ UNCHANGED <<jobs, nextjid, proc, fg_pid, child, shell>>
    /\ pc' = Wake
    /\ UNCHANGED <<mask, hdl, loc, forks, inputs>>

\* With no job in state FG (or with an FG slot whose pid is 0) getjobpid
\* returns NULL and the write through it is undefined: the shell crashes,
\* or the write is lost.
SigtstpHandler ==
    /\ UNCHANGED svars
    /\ shell = "run"
    /\ SIGTSTP \in pending /\ SIGTSTP \notin mask
    /\ LET p == fgpid(jobs)
           j == getjobpid(jobs, p)
       IN  /\ pid_buf' = LivePidBuf(p)
           /\ \E deref \in (IF j = 0 THEN {"crash", "lost"} ELSE {"ok"}) :
                IF deref = "crash"
                THEN /\ shell' = "crash"
                     /\ pending' = pending \ {SIGTSTP}
                     /\ UNCHANGED <<jobs, proc, child>>
                ELSE \E o \in edit_proc_entry(proc, p, "T") :
                       LET r == SignalGroup(child, p, "SIGTSTP")
                           killed == o.ok /\ p # 0
                       IN  /\ jobs' = IF j = 0 THEN jobs ELSE [jobs EXCEPT ![j].state = ST]
                           /\ proc' = o.proc
                           /\ child' = IF killed THEN r.child ELSE child
                           /\ pending' = (pending \ {SIGTSTP})
                                           \cup (IF killed /\ r.chld THEN {SIGCHLD} ELSE {})
                           /\ shell' = IF ~o.ok THEN "crash"
                                       ELSE IF p # 0 /\ ~GroupExists(child, p) THEN "exit1"
                                       ELSE shell
    /\ pc' = Wake
    /\ UNCHANGED <<nextjid, fg_pid, mask, hdl, loc, forks, inputs>>

(* ------------------------ children and the user ------------------------ *)
\* the child after fork: create_proc_entry, setpgid(0, 0), execve
ChildStart(p) ==
    /\ UNCHANGED svars
    /\ shell = "run"
    /\ child[p] \in {"forkF", "forkB"}
    /\ proc' = create_proc_entry(proc, p,
                  determine_stat_state(bg_to_state(child[p] = "forkB")))
    /\ child' = [child EXCEPT ![p] = "run"]
    /\ UNCHANGED <<jobs, nextjid, fg_pid, pid_buf, pending, mask, hdl, pc,
                   loc, shell, forks, inputs>>

\* a running child terminates (exit, a failed execve, a signal from outside)
ChildExit(p) ==
    /\ UNCHANGED svars
    /\ shell = "run"
    /\ child[p] = "run"
    /\ child' = [child EXCEPT ![p] = "zomb"]
    /\ pending' = pending \cup {SIGCHLD}
    /\ UNCHANGED <<jobs, nextjid, fg_pid, pid_buf, proc, mask, hdl, pc,
                   loc, shell, forks, inputs>>

\* a running child is stopped from outside the shell (SIGSTOP, SIGTTIN, ...)
ChildStop(p) ==
    /\ UNCHANGED svars
    /\ shell = "run"
    /\ child[p] = "run"
    /\ child' = [child EXCEPT ![p] = "stopu"]
    /\ pending' = pending \cup {SIGCHLD}
    /\ UNCHANGED <<jobs, nextjid, fg_pid, pid_buf, proc, mask, hdl, pc,
                   loc, shell, forks, inputs>>

\* the user types ctrl-c / ctrl-z: the terminal signals the shell
UserSignal(sig) ==
    /\ UNCHANGED svars
    /\ shell = "run"
    /\ sig \in {SIGINT, SIGTSTP}
    /\ sig \notin pending /\ inputs < MaxInputs
    /\ inputs' = inputs + 1
    /\ pending' = pending \cup {sig}
    /\ UNCHANGED <<jobs, nextjid, fg_pid, pid_buf, proc, child, mask, hdl,
                   pc, loc, shell, forks>>

(* --------------------------- specification ----------------------------- *)
Next ==
    \/ \E bg \in BOOLEAN : EvalExternal(bg)
    \/ Fork
    \/ BlockAll
    \/ AddJob
    \/ Restore
    \/ WaitCheck
    \/ Suspend
    \/ WaitDone
    \/ \E cmd \in {"fg", "bg"}, arg \in BgfgArgs : DoBgfg(cmd, arg)
    \/ BgfgGet
    \/ BgfgCheck
    \/ BgfgSet
    \/ BgfgFgpid
    \/ BgfgProc
    \/ BgfgKill
    \/ DeliverChld
    \/ ChldWait
    \/ ChldBody
    \/ SigintHandler
    \/ SigtstpHandler
    \/ \E p \in Pids : ChildStart(p)
    \/ \E p \in Pids : ChildExit(p)
    \/ \E p \in Pids : ChildStop(p)
    \/ \E sig \in {SIGINT, SIGTSTP} : UserSignal(sig)

Spec == Init /\ [][Next]_vars

(* ------------------- the job table on its own -------------------------- *)
\* Sequences of addjob and deletejob as the shell produces them with
\* background commands and exiting children: addjob with the pid of a new
\* child, deletejob with the pid of a job in the table.
TableAdd ==
    /\ UNCHANGED svars
    /\ forks < NumTablePids
    /\ forks' = forks + 1
    /\ LET r == addjob(jobs, nextjid, NextPid, BG)
       IN  jobs' = r.jobs /\ nextjid' = r.nextjid
    /\ UNCHANGED <<fg_pid, pid_buf, proc, child, pending, mask, hdl, pc, loc,
                   shell, inputs>>

TableDelete(p) ==
    /\ UNCHANGED svars
    /\ getjobpid(jobs, p) # 0
    /\ LET r == deletejob(jobs, nextjid, p)
       IN  jobs' = r.jobs /\ nextjid' = r.nextjid
    /\ UNCHANGED <<fg_pid, pid_buf, proc, child, pending, mask, hdl, pc, loc,
                   shell, forks, inputs>>

TableNext ==
    \/ TableAdd
    \/ \E p \in TablePids : TableDelete(p)

TableSpec == Init /\ [][TableNext]_vars

TypeOK ==
    /\ \A i \in Slots : jobs[i].state \in {UNDEF, FG, BG, ST}
    /\ \A p \in Pids : child[p] \in ChildStates
    /\ pending \subseteq AllSigs /\ mask \subseteq AllSigs
    /\ shell \in {"run", "exit0", "exit1", "crash"}
    /\ hdl.pc \in {"-", "wait", "body"}
    /\ fg_pid \in {0} \cup Pids
    /\ inputs \in 0..MaxInputs

(* ------------------------------- history ------------------------------- *)
\* strrevr on a sequence of characters
RECURSIVE strrevr(_)
strrevr(str) ==
    IF str = <<>> THEN <<>>
    ELSE Append(strrevr(SubSeq(str, 2, Len(str))), str[1])

\* a string without its last character
DropLast(str) == SubSeq(str, 1, Len(str) - 1)

\* history_length: entries before the first empty one
history_length(ring) ==
    Cardinality({i \in 1..MAXHISTORY : \A k \in 1..i : ring[k] # <<>>})

\* add_to_history without the shift of a full ring: the newest command
\* replaces the last entry
add_to_history_noshift(ring, cmd) ==
    IF \E i \in 1..MAXHISTORY : ring[i] = <<>>
    THEN LET i == CHOOSE i \in 1..MAXHISTORY :
                    ring[i] = <<>> /\ \A k \in 1..(i - 1) : ring[k] # <<>>
         IN  [ring EXCEPT ![i] = cmd]
    ELSE [ring EXCEPT ![MAXHISTORY] = cmd]

\* add_to_history: the first empty entry takes the command; a full ring
\* shifts down by one and takes it in the last entry
add_to_history(ring, cmd) ==
    IF \E i \in 1..MAXHISTORY : ring[i] = <<>>
    THEN LET i == CHOOSE i \in 1..MAXHISTORY :
                    ring[i] = <<>> /\ \A k \in 1..(i - 1) : ring[k] # <<>>
         IN  [ring EXCEPT ![i] = cmd]
    ELSE [i \in 1..MAXHISTORY |-> IF i < MAXHISTORY THEN ring[i + 1] ELSE cmd]

\* the words that start with '!'
BangWords == {"!0", "!1", "!2", "!-1"}
\* a line whose first character is a space and whose first argument, once
\* parseline has skipped the space, starts with '!'
SpacedBangWords == {" !1"}

\* write_to_history: [hfile, history, added] for one user's file.  The
\* trailing newline is dropped, a command starting with '!' is not written,
\* any other is appended to the file as a line and added to the ring
write_to_history(file, ring, cmd) ==
    LET c == IF cmd[Len(cmd)] = NL THEN DropLast(cmd) ELSE cmd
    IN  IF c # <<>> /\ c[1] \in BangWords
        THEN [hfile |-> file, history |-> ring, added |-> <<>>]
        ELSE [hfile |-> file \o c \o <<NL>>,
              history |-> add_to_history(ring, c),
              added |-> <<c>>]

\* init_history, the loop that reads the file backwards: i characters have
\* been read, command holds those of the line being read (last character
\* first), commands the completed lines (last line first)
RECURSIVE InitLoop(_, _, _, _)
InitLoop(file, i, command, commands) ==
    IF ~(i < Len(file) /\ Len(commands) < MAXHISTORY)
    THEN [command |-> command, commands |-> commands]
    ELSE LET c == file[Len(file) - i]
         IN  IF c = NL /\ Len(command) > 0
             THEN LET rev == strrevr(command)
                      done == IF Len(commands) = 0 THEN DropLast(rev) ELSE rev
                  IN  InitLoop(file, i + 1, <<>>, Append(commands, done))
             ELSE InitLoop(file, i + 1, Append(command, c), commands)

\* add_to_history(commands[j]) for j from the last index down to 0
RECURSIVE AddAll(_, _)
AddAll(ring, commands) ==
    IF commands = <<>> THEN ring
    ELSE AddAll(add_to_history(ring, commands[Len(commands)]), DropLast(commands))

\* init_history: the array commands[] after the loop, last line of the
\* file first
InitCommands(file) ==
    LET r == InitLoop(file, 0, <<>>, <<>>)
    IN  IF Len(r.commands) >= MAXHISTORY THEN r.commands
        ELSE Append(r.commands, strrevr(r.command))

\* init_history: the ring of a new process after reading the file
init_history(file) == AddAll(EmptyRing, InitCommands(file))

\* reset_history: the file rewritten from the ring, one line per non-empty
\* entry
RECURSIVE RingLines(_, _)
RingLines(ring, i) ==
    IF i > MAXHISTORY THEN <<>>
    ELSE (IF ring[i] # <<>> THEN ring[i] \o <<NL>> ELSE <<>>) \o RingLines(ring, i + 1)

reset_history(ring) == RingLines(ring, 1)

(* ------------------------------ the session ---------------------------- *)
\* The shell as a sequence of command lines: login, the read/eval loop with
\* the builtins quit, logout, history, !N and adduser, external commands,
\* end of file, and a new shell process started after an exit.  Here
\* sigchld_handler runs as one step when a child terminates.

\* the command lines the user types
ExternalWords == {"a &"}
AdduserWords == {"adduser new pw", "adduser root pw", "adduser new"}
TypedWords == ExternalWords \cup AdduserWords \cup BangWords
                \cup SpacedBangWords \cup {"quit", "logout", "history"}
\* the words that are a single argument
SingleField == BangWords \cup SpacedBangWords \cup {"quit", "logout", "history"}

\* sscanf(cmd, "!%d", &n)
BangN(w) == IF w = "!0" THEN 0 ELSE IF w \in {"!1", " !1"} THEN 1
            ELSE IF w = "!2" THEN 2 ELSE -1

\* argv[1] and argv[2] of an adduser line ("" for a missing argument)
AdduserName(w) == IF w = "adduser root pw" THEN "root" ELSE "new"
AdduserPwd(w) == IF w = "adduser new" THEN "" ELSE "pw"

\* parseline and builtin_cmd on a line: which branch of eval / exec_builtin
\* the line takes.  parseline turns only the last character of the line
\* into a space, so a line with a further newline before it carries that
\* newline in its last argument: a single-argument word then names no
\* builtin.  "!-1" fails the isdigit test of builtin_cmd.
Kind(line) ==
    LET w == line[1]
        junk == Len(line) > 2
    IN  IF w \notin TypedWords THEN "external"
        ELSE IF junk /\ w \in SingleField THEN "external"
        ELSE IF w = "quit" THEN "quit"
        ELSE IF w = "logout" THEN "logout"
        ELSE IF w = "history" THEN "history"
        ELSE IF w \in AdduserWords THEN "adduser"
        ELSE IF w \in BangWords \cup SpacedBangWords /\ BangN(w) >= 0 THEN "bang"
        ELSE "external"

\* parseline's result: does the last argument start with '&'
IsBg(line) == line[1] \in ExternalWords

\* add_user without the test of the logged-in user's name
add_user_noroot(un, pw, hm, name, pwd) ==
    IF name = "" \/ pwd = "" THEN [passwd |-> pw, homes |-> hm]
    ELSE IF name \in pw THEN [passwd |-> pw, homes |-> hm]
    ELSE [passwd |-> pw \cup {name}, homes |-> hm \cup {name}]

\* add_user: [passwd, homes]
add_user(un, pw, hm, name, pwd) ==
    IF name = "" \/ pwd = "" THEN [passwd |-> pw, homes |-> hm]
    ELSE IF un # "root" THEN [passwd |-> pw, homes |-> hm]
    ELSE IF name \in pw THEN [passwd |-> pw, homes |-> hm]
    ELSE [passwd |-> pw \cup {name}, homes |-> hm \cup {name}]

\* the non-empty commands of a sequence
RECURSIVE NonEmpty(_)
NonEmpty(cmds) ==
    IF cmds = <<>> THEN <<>>
    ELSE (IF cmds[1] # <<>> THEN <<cmds[1]>> ELSE <<>>)
            \o NonEmpty(SubSeq(cmds, 2, Len(cmds)))

\* a shell process at the username prompt, before any proc record exists
SessionInit ==
    /\ jobs = [i \in Slots |-> clearjob]
    /\ nextjid = 1
    /\ fg_pid = 0
    /\ pid_buf = 0
    /\ proc = [p \in Pids \cup {ShellPid} |-> NoRec]
    /\ child = [p \in Pids |-> "none"]
    /\ pending = {}
    /\ mask = {}
    /\ hdl = NoHdl
    /\ pc = "login"
    /\ loc = NoLoc
    /\ shell = "run"
    /\ forks = 0
    /\ inputs = 0
    /\ history = EmptyRing
    /\ hfile = [u \in LoginUsers |-> <<>>]
    /\ appended = <<>>
    /\ username = ""
    /\ passwd = LoginUsers
    /\ homes = LoginUsers
    /\ cmdline = <<>>
    /\ lines = 0
    /\ depth = 0

\* the session's variables apart from the nesting of eval
sess == <<history, hfile, appended, username, passwd, homes, cmdline, lines>>

\* the variables of the signal machinery, which the session leaves alone
sigvars == <<fg_pid, pid_buf, pending, mask, hdl, inputs>>

\* login with a name and password of etc/passwd, then init_history,
\* shell_stat and create_proc_entry
Login(u) ==
    /\ shell = "run" /\ pc = "login"
    /\ u \in passwd \cap LoginUsers
    /\ username' = u
    /\ history' = init_history(hfile[u])
    /\ appended' = NonEmpty(strrevr(InitCommands(hfile[u])))
    /\ proc' = create_proc_entry(proc, ShellPid, "Ss")
    /\ pc' = "read"
    /\ UNCHANGED <<jobs, nextjid, child, loc, shell, forks, hfile, passwd,
                   homes, cmdline, lines, depth>>
    /\ UNCHANGED sigvars

\* "quit" typed at the username prompt: quit(LOGIN_FAILURE)
LoginQuit ==
    /\ shell = "run" /\ pc = "login"
    /\ proc' = remove_proc_entries(proc)
    /\ shell' = "exit0"
    /\ UNCHANGED <<jobs, nextjid, child, pc, loc, forks>>
    /\ UNCHANGED svars
    /\ UNCHANGED sigvars

\* fgets returns a command line
ReadLine(w) ==
    /\ shell = "run" /\ pc = "read"
    /\ lines < MaxLines
    /\ lines' = lines + 1
    /\ cmdline' = <<w, NL>>
    /\ pc' = "eval"
    /\ UNCHANGED <<jobs, nextjid, proc, child, loc, shell, forks, history,
                   hfile, appended, username, passwd, homes, depth>>
    /\ UNCHANGED sigvars

\* end of file on standard input: exit(0)
Eof ==
    /\ shell = "run" /\ pc = "read"
    /\ shell' = "exit0"
    /\ UNCHANGED <<jobs, nextjid, proc, child, pc, loc, forks>>
    /\ UNCHANGED svars
    /\ UNCHANGED sigvars

\* the positions of eval called from main and of eval called from
\* run_nth_history
AtEval == pc \in {"eval", "eval_n"}
AtDispatch == pc \in {"dispatch", "dispatch_n"}

\* eval up to write_to_history(buf)
Persist ==
    /\ shell = "run" /\ AtEval
    /\ LET r == write_to_history(hfile[username], history, cmdline)
       IN  /\ hfile' = [hfile EXCEPT ![username] = r.hfile]
           /\ history' = r.history
           /\ appended' = appended \o r.added
    /\ pc' = IF pc = "eval" THEN "dispatch" ELSE "dispatch_n"
    /\ UNCHANGED <<jobs, nextjid, proc, child, loc, shell, forks, username,
                   passwd, homes, cmdline, lines, depth>>
    /\ UNCHANGED sigvars

\* quit(LOGIN_SUCCESS): reset_history, remove_proc_entries, exit
Quit ==
    /\ shell = "run" /\ AtDispatch /\ Kind(cmdline) = "quit"
    /\ hfile' = [hfile EXCEPT ![username] = reset_history(history)]
    /\ proc' = remove_proc_entries(proc)
    /\ shell' = "exit0"
    /\ UNCHANGED <<jobs, nextjid, child, pc, loc, forks, history, appended,
                   username, passwd, homes, cmdline, lines, depth>>
    /\ UNCHANGED sigvars

\* logout(LOGIN_SUCCESS)
Logout ==
    /\ shell = "run" /\ AtDispatch /\ Kind(cmdline) = "logout"
    /\ IF are_open_jobs(jobs)
       THEN /\ pc' = "read" /\ depth' = 0
            /\ UNCHANGED <<proc, shell, hfile>>
       ELSE /\ hfile' = [hfile EXCEPT ![username] = reset_history(history)]
            /\ proc' = remove_proc_entries(remove_proc_entry(proc, ShellPid))
            /\ shell' = "exit0"
            /\ UNCHANGED <<pc, depth>>
    /\ UNCHANGED <<jobs, nextjid, child, loc, forks, history, appended,
                   username, passwd, homes, cmdline, lines>>
    /\ UNCHANGED sigvars

\* show_history: output only
ShowHistory ==
    /\ shell = "run" /\ AtDispatch /\ Kind(cmdline) = "history"
    /\ pc' = "read" /\ depth' = 0
    /\ UNCHANGED <<jobs, nextjid, proc, child, loc, shell, forks>>
    /\ UNCHANGED sess
    /\ UNCHANGED sigvars

\* run_nth_history: the range test, then eval(history[n - 1] + "\n"), a
\* call nested in the eval that is running; when the stack has no room for
\* its frame the shell ends with a segmentation fault
RunNth ==
    /\ shell = "run" /\ AtDispatch /\ Kind(cmdline) = "bang"
    /\ LET n == BangN(cmdline[1])
       IN  IF n > history_length(history) \/ n < 1
           THEN /\ pc' = "read" /\ depth' = 0
                /\ UNCHANGED <<cmdline, shell>>
           ELSE IF depth < MaxDepth
           THEN /\ pc' = "eval_n" /\ depth' = depth + 1
                /\ cmdline' = history[n] \o <<NL>>
                /\ UNCHANGED shell
           ELSE /\ shell' = "crash"
                /\ UNCHANGED <<pc, cmdline, depth>>
    /\ UNCHANGED <<jobs, nextjid, proc, child, loc, forks, history,
                   hfile, appended, username, passwd, homes, lines>>
    /\ UNCHANGED sigvars

\* exec_builtin -> add_user(argv[1], argv[2])
AddUser ==
    /\ shell = "run" /\ AtDispatch /\ Kind(cmdline) = "adduser"
    /\ LET r == add_user(username, passwd, homes,
                         AdduserName(cmdline[1]), AdduserPwd(cmdline[1]))
       IN  passwd' = r.passwd /\ homes' = r.homes
    /\ pc' = "read" /\ depth' = 0
    /\ UNCHANGED <<jobs, nextjid, proc, child, loc, shell, forks, history,
                   hfile, appended, username, cmdline, lines>>
    /\ UNCHANGED sigvars

\* eval of a line that is not a builtin: fork (which fails once the kernel
\* has no pid left), the child's create_proc_entry, addjob, then waitfg for
\* a foreground command
RunExternal ==
    /\ shell = "run" /\ AtDispatch /\ Kind(cmdline) = "external"
    /\ LET bg == IsBg(cmdline)
           pid == IF forks < MaxInputs THEN NextPid ELSE -1
           r == addjob(jobs, nextjid, pid, bg_to_state(bg))
       IN  /\ jobs' = r.jobs /\ nextjid' = r.nextjid
           /\ IF pid > 0
              THEN /\ forks' = forks + 1
                   /\ child' = [child EXCEPT ![pid] = "run"]
                   /\ proc' = create_proc_entry(proc, pid,
                                 determine_stat_state(bg_to_state(bg)))
              ELSE UNCHANGED <<forks, child, proc>>
           /\ IF bg THEN pc' = "read" /\ loc' = NoLoc /\ depth' = 0
                    ELSE /\ pc' = "waitfg" /\ loc' = [NoLoc EXCEPT !.pid = pid]
                         /\ UNCHANGED depth
    /\ UNCHANGED shell
    /\ UNCHANGED sess
    /\ UNCHANGED sigvars

\* a child terminates and sigchld_handler reaps it: deletejob and
\* remove_proc_entry when the pid has a job; waitfg returns for its pid
ChildDone(p) ==
    /\ shell = "run" /\ child[p] = "run"
    /\ child' = [child EXCEPT ![p] = "none"]
    /\ IF getjobpid(jobs, p) # 0
       THEN LET d == deletejob(jobs, nextjid, p)
            IN  /\ jobs' = d.jobs /\ nextjid' = d.nextjid
                /\ proc' = remove_proc_entry(proc, p)
       ELSE UNCHANGED <<jobs, nextjid, proc>>
    /\ IF pc = "waitfg" /\ loc.pid = p
       THEN pc' = "read" /\ loc' = NoLoc /\ depth' = 0
       ELSE UNCHANGED <<pc, loc, depth>>
    /\ UNCHANGED <<shell, forks>>
    /\ UNCHANGED sess
    /\ UNCHANGED sigvars

\* the shell is started again after an exit: a new process with empty job
\* table and ring; proc/, home/ and etc/passwd are what the old one left
Restart ==
    /\ shell = "exit0"
    /\ jobs' = [i \in Slots |-> clearjob]
    /\ nextjid' = 1
    /\ child' = [p \in Pids |-> "none"]
    /\ history' = EmptyRing
    /\ appended' = <<>>
    /\ username' = ""
    /\ cmdline' = <<>>
    /\ pc' = "login"
    /\ loc' = NoLoc
    /\ shell' = "run"
    /\ depth' = 0
    /\ UNCHANGED <<proc, forks, hfile, passwd, homes, lines>>
    /\ UNCHANGED sigvars

SessionNext ==
    \/ \E u \in LoginUsers : Login(u)
    \/ LoginQuit
    \/ \E w \in TypedWords : ReadLine(w)
    \/ Eof
    \/ Persist
    \/ Quit
    \/ Logout
    \/ ShowHistory
    \/ RunNth
    \/ AddUser
    \/ RunExternal
    \/ \E p \in Pids : ChildDone(p)
    \/ Restart

SessionSpec == SessionInit /\ [][SessionNext]_vars

(* ------------------------------ properties ----------------------------- *)
\* the slots holding a job in state FG
FgSlots == {i \in Slots : jobs[i].state = FG}

\* C1: in every reachable state at most one slot of the job table has
\* state FG.
C1_AtMostOneFG == Cardinality(FgSlots) <= 1

\* C2: the foreground waiter cannot miss a wakeup.  Safety form: waitfg is
\* never suspended in sigsuspend when the handler has already posted the
\* wakeup for its pid (fg_pid = pid) and no signal is left to end the
\* suspension.
C2_NoLostWakeup ==
    ~(shell = "run" /\ pc = "asleep" /\ hdl.pc = "-" /\ Quiet
        /\ fg_pid = loc.pid)

\* C3 as stated: whenever sigchld_handler reaps a pid returned by fork, a
\* job with that pid is in the job table.
C3_ReapedPidHasJob ==
    (hdl.pc = "body" /\ hdl.status = "exit") => getjobpid(jobs, hdl.pid) # 0

\* C3 amended: sigchld_handler does not run between the fork and the end of
\* addjob (from the return of fork to the restore of the mask), so the pid
\* it reaps is never one whose addjob is still to come.
C3_NoHandlerBetweenForkAndAddjob ==
    pc \in {"blockall", "addjob", "restore"} => hdl.pc = "-"

\* C3 witness: the child has terminated and its SIGCHLD is pending while
\* eval stands before addjob.
C3_Witness ==
    /\ pc = "addjob" /\ loc.pid \in Pids
    /\ child[loc.pid] = "zomb" /\ SIGCHLD \in pending

\* C4: when sigchld_handler is done with a pid that exited or was killed,
\* no proc record exists for the pid and no slot of the job table has it.
C4_ReapClearsPid ==
    [][(hdl.pc = "body" /\ hdl.status = "exit" /\ hdl'.pc # "body")
         => (~HasRec(proc', hdl.pid) /\ getjobpid(jobs', hdl.pid) = 0)]_vars

\* C5: the argument of fg / bg may be a jid or a pid: the job do_bgfg
\* selects is the job of the table whose jid or whose pid is the argument.
C5_JidOrPidSelectsJob ==
    [][(pc = "b_get" /\ pc' = "b_chk")
         => \A i \in Slots :
              (jobs[i].pid # 0 /\ loc.arg \in {jobs[i].jid, jobs[i].pid})
                => loc'.job = i]_vars

\* C6: when fg has moved a job to FG the shell does not go back to reading
\* commands while that job is still in state FG.
C6_FgWaitsForJob ==
    [][(loc.cmd = "fg" /\ pc \in {"b_proc", "b_kill"} /\ pc' = "read"
          /\ shell' = "run")
         => jobs'[loc.job].state # FG]_vars

\* C7: in every reachable state and every slot, pid = 0 iff state = UNDEF
\* iff jid = 0.
C7_EmptySlotConsistent ==
    \A i \in Slots :
        /\ (jobs[i].pid = 0) <=> (jobs[i].state = UNDEF)
        /\ (jobs[i].state = UNDEF) <=> (jobs[i].jid = 0)

\* C8: after any sequence of addjob and deletejob the jids of the
\* non-empty slots are pairwise distinct.
C8_JidsDistinct ==
    \A i, k \in Slots :
        (i # k /\ jobs[i].pid # 0 /\ jobs[k].pid # 0)
          => jobs[i].jid # jobs[k].jid

\* C9: after any sequence of addjob and deletejob the jid of every
\* non-empty slot lies in 1..MAXJOBS.
C9_JidInRange ==
    \A i \in Slots : jobs[i].pid # 0 => jobs[i].jid \in 1..MAXJOBS

\* a change of the state of the job in slot i, among FG, BG and ST
StateChange(i, from, to) ==
    /\ jobs[i].pid # 0 /\ jobs'[i].pid = jobs[i].pid
    /\ jobs[i].state = from /\ jobs'[i].state = to

AtPrompt == shell = "run" /\ pc = "read" /\ hdl.pc = "-" /\ Quiet

\* C11: whenever the shell is idle at the prompt, the proc record of every
\* tracked job has stat R+ if the job is FG, R if BG and T if ST, and the
\* shell's own record has stat Ss.
C11_ProcMatchesState ==
    AtPrompt =>
        /\ proc[ShellPid] = "Ss"
        /\ \A i \in Slots :
              (jobs[i].pid # 0 /\ HasRec(proc, jobs[i].pid))
                => proc[jobs[i].pid] = determine_stat_state(jobs[i].state)

\* C12: a stop of the awaited foreground job p brings the shell back to the
\* prompt with p in state ST and proc stat T.  Safety form: the shell is
\* never left suspended in waitfg(p), with no signal pending, once p is
\* stopped, its stop has been reported and handled (job ST, stat T,
\* fg_pid = p).
C12_StopEndsWait ==
    ~(/\ shell = "run" /\ pc = "asleep" /\ hdl.pc = "-" /\ pending = {}
      /\ loc.pid \in Pids /\ child[loc.pid] = "stop"
      /\ getjobpid(jobs, loc.pid) # 0
      /\ jobs[getjobpid(jobs, loc.pid)].state = ST
      /\ proc[loc.pid] = "T")

(* ----------------------- properties of the session --------------------- *)
\* the lines of a file, each without its newline
RECURSIVE FileLines(_)
FileLines(file) ==
    IF file = <<>> THEN <<>>
    ELSE IF \E i \in 1..Len(file) : file[i] = NL
    THEN LET i == CHOOSE i \in 1..Len(file) :
                    file[i] = NL /\ \A k \in 1..(i - 1) : file[k] # NL
         IN  <<SubSeq(file, 1, i - 1)>> \o FileLines(SubSeq(file, i + 1, Len(file)))
    ELSE <<file>>

\* the occupied entries of the ring in index order
RingEntries(ring) == NonEmpty([i \in 1..MAXHISTORY |-> ring[i]])

\* the last n elements of a sequence (all of it when it is shorter)
LastN(seq, n) ==
    IF Len(seq) <= n THEN seq ELSE SubSeq(seq, Len(seq) - n + 1, Len(seq))

\* the step in which the builtin of the current line returns or exits
BuiltinStep(kind) ==
    /\ shell = "run" /\ AtDispatch /\ Kind(cmdline) = kind
    /\ (pc' = "read" \/ shell' # "run")

C14_ShutdownClearsProc ==
    (shell = "exit0" /\ username # "")
      => \A p \in DOMAIN proc : ~HasRec(proc, p)

\* C15: after quit in a logged-in session the history file holds exactly
\* the entries of the ring, oldest first, one per line, so at most
\* MAXHISTORY lines; quit at the username prompt leaves the file alone.
C15_QuitWritesRing ==
    [][/\ (BuiltinStep("quit") /\ shell' = "exit0")
            => /\ FileLines(hfile'[username]) = RingEntries(history)
               /\ Len(FileLines(hfile'[username])) <= MAXHISTORY
       /\ (shell = "run" /\ pc = "login" /\ shell' = "exit0")
            => hfile' = hfile]_vars

\* C16: history round trip: with N non-empty lines persisted in the file,
\* the ring after a restart and reload is the last min(N, MAXHISTORY) of
\* them in order.
C16_RoundTrip ==
    (/\ shell = "run" /\ pc = "read" /\ username # "" /\ cmdline = <<>>
     /\ \A k \in 1..Len(FileLines(hfile[username])) :
           FileLines(hfile[username])[k] # <<>>)
      => RingEntries(history) = LastN(FileLines(hfile[username]), MAXHISTORY)

\* the eval of a line !N with N in range, and the eval of the command it
\* recalls
Recalling ==
    \/ pc = "eval_n"
    \/ /\ pc = "eval" /\ Kind(cmdline) = "bang"
       /\ BangN(cmdline[1]) \in 1..history_length(history)

\* C17: a recalled !N invocation is not persisted: neither the !N text nor
\* the command it replays changes the ring or the history file.
C17_RecallNotPersisted ==
    [][(shell = "run" /\ Recalling /\ pc' # pc)
         => (history' = history /\ hfile' = hfile)]_vars

\* C18: for !N with N outside 1..history_length nothing is evaluated: no
\* job is added, no child is forked, the ring is unchanged and the shell
\* reads the next line.
C18_OutOfRangeNoEval ==
    [][(/\ shell = "run" /\ pc \in {"eval", "dispatch"} /\ pc' # pc
        /\ Len(cmdline) = 2 /\ cmdline[1] \in BangWords
        /\ BangN(cmdline[1]) \notin 1..history_length(history))
         => /\ jobs' = jobs /\ forks' = forks /\ child' = child
            /\ history' = history
            /\ pc' \in {"dispatch", "read"}]_vars

\* C19: the ring is a bounded FIFO: its occupied entries are the last
\* min(n, MAXHISTORY) of the n commands appended, contiguous from the first
\* index with the oldest first.
C19_RingIsFifo ==
    /\ \A i \in 1..MAXHISTORY :
          history[i] # <<>> => \A k \in 1..i : history[k] # <<>>
    /\ RingEntries(history) = LastN(appended, MAXHISTORY)

\* C19 witness: more commands have been appended than the ring holds.
C19_Witness ==
    /\ shell = "run" /\ pc = "read"
    /\ Len(appended) > MAXHISTORY
    /\ \A i \in 1..MAXHISTORY : history[i] # <<>>

C21_ListedInOrderAdded ==
    \A a, b \in 1..Len(listjobs(jobs)) :
        a < b => listjobs(jobs)[a].pid < listjobs(jobs)[b].pid

\* the pids the shell passes to addjob and deletejob: the pid of a child,
\* and what fork returns when it fails (eval does not test it)
PidArgs == TablePids \cup {-1, 0}

\* the largest jid of a table, 0 for the empty table
LargestJid(J) ==
    CHOOSE m \in {J[k].jid : k \in Slots} : \A k \in Slots : J[k].jid <= m

\* C24: on every table the shell can build and for every pid, deletejob
\* clears exactly the slot with that pid and leaves nextjid equal to the
\* largest remaining jid plus one; with no such slot, or pid < 1, it
\* reports failure and leaves the table and nextjid unchanged.
C24_RemoveResetsNext ==
    \A pid \in PidArgs :
        LET r == deletejob(jobs, nextjid, pid)
            M == {i \in Slots : jobs[i].pid = pid}
        IN  IF pid >= 1 /\ M # {}
            THEN /\ r.ok
                 /\ \A i \in Slots :
                       r.jobs[i] = IF i \in M THEN clearjob ELSE jobs[i]
                 /\ r.nextjid = LargestJid(r.jobs) + 1
            ELSE /\ ~r.ok
                 /\ r.jobs = jobs
                 /\ r.nextjid = nextjid

\* C24 witness: three jobs were added and the newest was removed: its slot
\* is clear, the two older jobs remain and nextjid is back at 3.
C24_Witness ==
    /\ forks = 3 /\ nextjid = 3
    /\ jobs[1].jid = 1 /\ jobs[2].jid = 2 /\ jobs[3] = clearjob

\* the empty slots of a table
EmptySlots(J) == {i \in Slots : J[i].pid = 0}

\* C25 as stated: addjob on a table with no empty slot fails and leaves
\* every slot and nextjid unchanged; on a table with an empty slot it fills
\* the lowest-index empty slot and changes no other slot.
C25_AddFillsOrFull ==
    \A pid \in PidArgs \ {0} : \A st \in {FG, BG} :
        LET r == addjob(jobs, nextjid, pid, st)
            E == EmptySlots(jobs)
        IN  IF E = {}
            THEN ~r.ok /\ r.jobs = jobs /\ r.nextjid = nextjid
            ELSE /\ r.ok
                 /\ \E i \in E :
                       /\ \A k \in E : i <= k
                       /\ r.jobs[i].pid = pid /\ r.jobs[i].state = st
                       /\ \A k \in Slots \ {i} : r.jobs[k] = jobs[k]

\* C25 amended: addjob with pid < 1 (the result of a failed fork), or on a
\* table with no empty slot, fails and leaves every slot and nextjid
\* unchanged; with pid >= 1 on a table with an empty slot it fills the
\* lowest-index empty slot with the pid, the state and jid = nextjid, and
\* changes no other slot.
C25_AddFillsOrFails ==
    \A pid \in PidArgs \ {0} : \A st \in {FG, BG} :
        LET r == addjob(jobs, nextjid, pid, st)
            E == EmptySlots(jobs)
        IN  IF pid < 1 \/ E = {}
            THEN ~r.ok /\ r.jobs = jobs /\ r.nextjid = nextjid
            ELSE /\ r.ok
                 /\ \E i \in E :
                       /\ \A k \in E : i <= k
                       /\ r.jobs[i] = [pid |-> pid, jid |-> nextjid, state |-> st]
                       /\ \A k \in Slots \ {i} : r.jobs[k] = jobs[k]

\* C25 witness: the table is full and the last addjob failed: the pid of
\* the newest child is in no slot.
C25_Witness ==
    /\ forks > MAXJOBS
    /\ \A i \in Slots : jobs[i].pid # 0 /\ jobs[i].pid # ShellPid + forks

\* C36: whenever the job table is empty nextjid is 1, so the first job
\* added to an empty table receives jid 1.
C36_EmptyTableNextIsOne ==
    EmptySlots(jobs) = Slots
      => /\ nextjid = 1
         /\ \A pid \in TablePids :
               addjob(jobs, nextjid, pid, BG).jobs[1] =
                   [pid |-> pid, jid |-> 1, state |-> BG]

\* C36 witness: jobs were added and all of them removed again.
C36_Witness ==
    /\ forks >= 2 /\ EmptySlots(jobs) = Slots /\ nextjid = 1

(* ------------------ properties of the shell and its handlers ----------- *)
\* the children that were forked and have been reaped
Reaped == {p \in Pids : p <= ShellPid + forks /\ child[p] = "none"}

\* C22: a child whose execve failed exits and is reaped as a normal exit.
\* Once the shell has nothing more to handle (no handler active, no signal
\* pending), a reaped child has no job slot and no proc record, and the
\* shell is not suspended in waitfg for it.
C22_ExecFailureReaped ==
    (shell = "run" /\ hdl.pc = "-" /\ pending = {})
      => \A p \in Reaped :
            /\ getjobpid(jobs, p) = 0
            /\ ~HasRec(proc, p)
            /\ ~(pc = "asleep" /\ loc.pid = p)

\* C23: every write of a non-zero value v to fg_pid is made for a job with
\* pid v that was in state FG immediately before the handler's write;
\* fg_pid is never set to the pid of a job that was BG or ST.
C23_FgPidOnlyForFgJob ==
    [][(fg_pid' # fg_pid /\ fg_pid' # 0)
         => \E i \in Slots : jobs[i].pid = fg_pid' /\ jobs[i].state = FG]_vars

\* C26: waitfg called from eval runs its test of fg_pid, and the step from
\* the test to sigsuspend, with SIGCHLD blocked, so sigchld_handler cannot
\* run between the test and the suspension.
C26_WaitTestBlocked ==
    (shell = "run" /\ hdl.pc = "-" /\ pc \in {"waitchk", "sigsuspend"})
      => SIGCHLD \in mask

\* a step of the main thread (the handlers leave pc alone, or wake it)
MainStep == pc # "asleep" /\ pc' # pc

C28_ReapLoopMasked ==
    (shell = "run" /\ hdl.pc \in {"wait", "body"}) => mask = AllSigs

\* C29: one run of sigchld_handler reaps every child whose change of
\* status is ready, whether or not an earlier reaped pid had a job: when
\* the handler returns, no terminated or freshly stopped child is left
\* unreaped, except one whose SIGCHLD is still pending and starts a
\* further run.
C29_ReapsAllReady ==
    [][(hdl.pc # "-" /\ hdl'.pc = "-" /\ shell' = "run")
         => (Ready(child') = {} \/ SIGCHLD \in pending')]_vars

\* the step in which sigint_handler runs (nothing else takes SIGINT out of
\* the pending set)
SigintStep == shell = "run" /\ SIGINT \in pending /\ SIGINT \notin pending'

\* the slots that hold a job in state FG
FgJobs == {i \in Slots : jobs[i].pid # 0 /\ jobs[i].state = FG}

SigtstpStep == shell = "run" /\ SIGTSTP \in pending /\ SIGTSTP \notin pending'

\* C31: sigtstp_handler delivered while no slot is in state FG leaves the
\* job table and the proc mirror unchanged, sends no signal, and the shell
\* keeps running.
C31_StopWithoutFgIsNoop ==
    [][(SigtstpStep /\ FgSlots = {})
         => /\ jobs' = jobs /\ proc' = proc /\ child' = child
            /\ shell' = "run"]_vars

Rejected ==
    /\ pc = "b_chk"
    /\ \/ loc.job = 0
       \/ jobs[loc.job].state = FG
       \/ jobs[loc.job].state = BG /\ loc.cmd = "bg"

\* C33: a rejected fg / bg request leaves the job table, fg_pid and the
\* proc mirror unchanged and sends no signal: no step of do_bgfg up to and
\* including the rejection changes them, and the rejection returns to the
\* prompt.
C33_RejectedBgfgIsNoop ==
    [][/\ (MainStep /\ (pc' = "b_get" \/ pc = "b_get" \/ Rejected))
            => /\ jobs' = jobs /\ nextjid' = nextjid /\ fg_pid' = fg_pid
               /\ proc' = proc /\ child' = child /\ pending' = pending
               /\ shell' = "run"
       /\ (MainStep /\ Rejected) => pc' = "read"]_vars

\* C33 witness: do_bgfg has looked up the job of a bg request and found it
\* running in the background, with nothing else going on.
C33_Witness ==
    /\ Rejected /\ loc.cmd = "bg" /\ loc.job # 0
    /\ jobs[loc.job].state = BG /\ jobs[loc.job].pid \in Pids
    /\ child[jobs[loc.job].pid] = "run"
    /\ shell = "run" /\ hdl.pc = "-" /\ pending = {}

\* the step calls edit_proc_entry for the pid of a job that has no proc
\* record: in do_bgfg, in the stop branch of sigchld_handler, in
\* sigtstp_handler
EditsMissing ==
    \/ /\ MainStep /\ pc = "b_proc"
       /\ ~HasRec(proc, jobs[loc.job].pid)
    \/ /\ hdl.pc = "body" /\ hdl'.pc # "body" /\ hdl.status = "stop"
       /\ getjobpid(jobs, pid_buf) # 0 /\ ~HasRec(proc, pid_buf)
    \/ /\ SigtstpStep
       /\ getjobpid(jobs, fgpid(jobs)) # 0 /\ ~HasRec(proc, fgpid(jobs))

\* C34: edit_proc_entry on a pid whose proc record does not exist reports
\* the missing record, creates no record and changes none, and the shell
\* keeps running.
C34_EditMissingTolerated ==
    [][EditsMissing => (shell' = "run" /\ proc' = proc)]_vars

\* C35: whenever the main loop is reading a line from standard input the
\* signal mask is the one the shell started with (empty): after any command
\* eval leaves no signal blocked.
C35_ReadWithStartupMask ==
    (shell = "run" /\ pc = "read" /\ hdl.pc = "-") => mask = {}

\* C35 witness: the shell is idle at the prompt after two external
\* commands: the child of one has been reaped by sigchld_handler, the job
\* of the other runs in the background.
C35_Witness ==
    /\ AtPrompt /\ forks = 2 /\ inputs = 2
    /\ Cardinality(Reaped) = 1
    /\ \E i \in Slots : jobs[i].state = BG

\* C37: a foreground command whose job could not be recorded (fork failed,
\* or the table was full) does not leave the shell suspended for ever.
\* Safety form: the shell is never suspended in waitfg(pid), with no signal
\* pending, for a pid that has no job and no process (fork returned -1, or
\* the child has been reaped) while fg_pid is not that pid: nothing is left
\* that could set fg_pid to it.
C37_UnrecordedFgReturns ==
    ~(/\ shell = "run" /\ pc = "asleep" /\ hdl.pc = "-" /\ pending = {}
      /\ getjobpid(jobs, loc.pid) = 0
      /\ (loc.pid = -1 \/ loc.pid \in Reaped)
      /\ fg_pid # loc.pid)

\* C38: no signal handler ever terminates the shell: after every run of
\* sigint_handler and sigtstp_handler and every step of sigchld_handler,
\* wherever the signal was delivered, the shell is still running.
C38_HandlersKeepShell ==
    [][(SigintStep \/ SigtstpStep \/ (hdl.pc # "-" /\ hdl' # hdl))
         => shell' = "run"]_vars

\* C39: waitfg(p) returns only when no job with pid p is in state FG, and
\* it leaves fg_pid = 0; a non-zero fg_pid left by an earlier job does not
\* end the wait for a later job.
C39_WaitReturnsAfterFg ==
    [][/\ (MainStep /\ pc = "waitchk" /\ pc' = "waitdone") => fg_pid = loc.pid
       /\ (MainStep /\ pc = "waitdone")
            => /\ fg_pid' = 0
               /\ \A i \in Slots :
                     jobs[i].pid = loc.pid => jobs[i].state # FG]_vars

\* C39 witness: waitfg has returned for the second command, whose child was
\* reaped, and fg_pid is 0; the job of the first command, stopped in the
\* background (a stop for which sigchld_handler wrote fg_pid too), is still
\* in the table.
C39_Witness ==
    /\ shell = "run" /\ pc = "read" /\ hdl.pc = "-" /\ forks = 2
    /\ fg_pid = 0 /\ ShellPid + 2 \in Reaped
    /\ \E i \in Slots : jobs[i].pid = ShellPid + 1 /\ jobs[i].state = ST

\* C40: no entry of the history ring begins with '!', and so the replay of
\* !N evaluates an ordinary command: the eval that run_nth_history calls
\* never calls run_nth_history again with a number in range, and the replay
\* ends after that one nested eval.
C40_ReplayIsOneLevel ==
    /\ \A i \in 1..MAXHISTORY :
          history[i] # <<>> => history[i][1] \notin BangWords
    /\ depth <= 1
    /\ shell # "crash"
====
